---------------------------- MODULE Spec2Model ----------------------------
(***************************************************************************)
(* AsyncLoadable (zutil-async-loadable/src/lib.rs): one cell guarded by a  *)
(* parking_lot mutex, loader tasks spawned on a tokio runtime, client      *)
(* tasks calling the cell's operations, and the load handles they hold.    *)
(*                                                                         *)
(* The runtime has NThreads worker threads.  A task occupies a worker from *)
(* the moment it is polled until it suspends at an .await or returns; a    *)
(* blocking `lock()` on a held mutex keeps the worker occupied.            *)
(***************************************************************************)
EXTENDS Integers, FiniteSets, Sequences, TLC

\* ---- bounds of the model ------------------------------------------------
NClients == 2
NThreads == 2
MaxTasks == 2
MaxVal == 1
MaxProg == 1
MaxKey == 3
MaxItem == 2
MaxInserts == 3
MaxResults == 3
Bits == 3
MaxPath == 2
MaxWrites == 3
NProcs == 3
MaxLocks == 3

Clients == 1..NClients
TaskIds == 1..MaxTasks
Vals == 1..MaxVal
Progs == 1..MaxProg
\* P::default(), and the values of P: the default and what update reports.
DefaultProg == 0
ProgVals == {DefaultProg} \cup Progs
Keys == 1..MaxKey
Items == 1..MaxItem
Paths == 1..MaxPath
Procs == 1..NProcs

\* ---- values ---------------------------------------------------------------
\* Option::None, for `res`, `progress` and the values operations return.
None == <<"None", 0>>
Ok(v) == <<"Ok", v>>
Err(v) == <<"Err", v>>
Some(p) == <<"Some", p>>
Bool(b) == <<"Bool", IF b THEN 1 ELSE 0>>
\* What the producer `f` can return: Result<T, AppError>.
Outcomes == {Ok(v) : v \in Vals} \cup {Err(v) : v \in Vals}
\* Errors made by the handle's future from the JoinError of the task.
ErrCancelled == <<"ErrCancelled", 0>>
ErrPanicked == <<"ErrPanicked", 0>>
\* `expect("Value should be loaded")` on an empty result.
ExpectFailed == <<"ExpectFailed", 0>>
IsFailure(x) == x[1] \in {"Err", "ErrCancelled", "ErrPanicked"}

\* Holders of the mutex of `inner`.
Free == <<"free", 0>>
ByClient(c) == <<"client", c>>
ByTask(t) == <<"task", t>>
ByLoaded(c) == <<"loaded", c>>
ByFut(c) == <<"fut", c>>

NoHandle == [kind |-> "none", t |-> 0, aod |-> TRUE, fut |-> FALSE]
NoTask == [st |-> "none", out |-> None, abort |-> FALSE, join |-> FALSE]

VARIABLES
    res,          \* Inner::res
    progress,     \* Inner::progress
    task_handle,  \* Inner::task_handle: 0 for None, else the task's id
    lock,         \* who holds the mutex guarding Inner
    tasks,        \* the spawned loader tasks
    pc,           \* where each client task is
    hnd,          \* the LoadHandle / LoadHandleFut each client holds
    notified,     \* per client: its live Notified future has been notified
    ret,          \* what the step just taken returned, and to whom (NoRet: nothing)
    workers,      \* the number of worker threads of the runtime
    load_or_wait, \* per client: it is inside try_load_or_wait
    par_iter,     \* a KeyedParIter / KVParIter and what it has yielded
    map_vector,   \* a BTreeMapVector and what was inserted into it
    all_errs,     \* an AllErrs and the items it was made from
    numbers,      \* the arithmetic helper called last, its arguments and its result
    file_writer,  \* the Logger's FileWriter, the files and the bytes logged
    file_lock     \* the lock file of one path and the FileLocks made for it

\* The state of the AsyncLoadable and its runtime, and the state of the
\* collections, which the operations of the cell leave alone.
cell == <<res, progress, task_handle, lock, tasks, pc, hnd, notified, ret, workers,
          load_or_wait>>
data == <<par_iter, map_vector, all_errs, numbers,
          file_writer, file_lock>>
vars == <<cell, data>>

\* ---- the runtime ----------------------------------------------------------
\* Client positions at which the client task is suspended (not on a worker).
SuspendedPcs == {"idle", "wait_await", "h_await"}
\* Task states in which the task is inside a poll.
PollingSts == {"update", "update_with", "lock", "write", "clear", "notify", "ret"}
\* Task states in which JoinHandle / AbortHandle::is_finished() is true.
FinishedSts == {"finished", "done", "cancelled", "panicked"}

Running ==
    {<<"c", c>> : c \in {d \in Clients : pc[d] \notin SuspendedPcs}}
        \cup {<<"t", t>> : t \in {u \in TaskIds : tasks[u].st \in PollingSts}}

ThreadFree == Cardinality(Running) < workers

is_finished(t) == tasks[t].st \in FinishedSts

\* AbortHandle::abort: no effect on a finished task, else the task is marked
\* cancelled and is torn down when it is next scheduled.
Abort(ts, t) ==
    IF ts[t].st \in FinishedSts THEN ts ELSE [ts EXCEPT ![t].abort = TRUE]

\* Dropping a JoinHandle: a stored output is dropped with it (releasing the
\* guard inside), an unfinished task is detached.
DropJoinTasks(ts, t) ==
    IF ts[t].st = "finished" THEN [ts EXCEPT ![t].st = "done"]
    ELSE [ts EXCEPT ![t].join = FALSE]

DropJoinLock(t) ==
    IF tasks[t].st = "finished" /\ lock = ByTask(t) THEN Free ELSE lock

Returned(c, op, v) == [c |-> c, op |-> op, val |-> v]
NoRet == Returned(0, "none", None)

\* AsyncLoadable::new, on a runtime with w worker threads.
NewCell(w) ==
    /\ res = None
    /\ progress = None
    /\ task_handle = 0
    /\ lock = Free
    /\ tasks = [t \in TaskIds |-> NoTask]
    /\ pc = [c \in Clients |-> "idle"]
    /\ hnd = [c \in Clients |-> NoHandle]
    /\ notified = [c \in Clients |-> FALSE]
    /\ ret = NoRet
    /\ workers = w
    /\ load_or_wait = [c \in Clients |-> FALSE]

\* KeyedParIter::new / KVParIter::new; `out` is what next() has yielded so far
\* and `done` that it has returned None.
NewParIter(kind, l, r) ==
    [kind |-> kind, left |-> l, right |-> r, value |-> None,
     out |-> <<>>, done |-> FALSE, left0 |-> l, right0 |-> r]

\* BTreeMapVector::new: no key has values.  `inserted` is the list of the
\* insert calls made and `ranged` what the range call just made returned.
NewMapVector ==
    [map |-> [k \in Keys |-> <<>>], inserted |-> <<>>, ranged |-> None]

\* AllErrs::default: Ok of the empty collection.  `fed` is the list of the
\* items it was collected from or extended with, `op` the last call made.
NewAllErrs == [this |-> Ok(<<>>), fed |-> <<>>, op |-> "default"]

\* No arithmetic helper was called.
NoCall == [op |-> "none", a |-> 0, b |-> 0, ret |-> None]

\* FileWriter::memory, as Logger::new makes it: writing into an empty Vec.
\* `path` is the file a File kind holds (0: none), `files` the content of each
\* file and `produced` every byte handed to the writer so far.
memory ==
    [kind |-> "Memory", bytes |-> <<>>, path |-> 0,
     files |-> [p \in Paths |-> <<>>], produced |-> <<>>]

\* The path of the lock has no file and no process has a FileLock.  `live` is
\* the processes that have a FileLock value, `removals` how often remove_file
\* was called for the FileLock a process had last, `made` the number of
\* FileLocks made and `last` the call made last: its process, whether the
\* file existed when it began, and what it returned.
NoLockCall == [op |-> "none", p |-> 0, existed |-> FALSE, val |-> None]
NoLockFile ==
    [exists |-> FALSE, live |-> {}, removals |-> [p \in Procs |-> 0],
     made |-> 0, last |-> NoLockCall]

\* The collections as the runs of the cell leave them: empty.
NoData ==
    /\ par_iter = NewParIter("KeyedParIter", <<>>, <<>>)
    /\ map_vector = NewMapVector
    /\ all_errs = NewAllErrs
    /\ numbers = NoCall
    /\ file_writer = memory
    /\ file_lock = NoLockFile

Init ==
    /\ \E w \in 1..NThreads : NewCell(w)
    /\ NoData

\* ---- clients calling the cell's operations --------------------------------
SyncOps == {"get", "reset", "progress", "is_loading", "stop_loading"}

\* try_load_or_wait begins with its call of try_load.
Entry(op) == IF op = "try_load_or_wait" THEN "try_load" ELSE op

\* What a client gets back from try_load, wait or a handle's future: the value
\* is the caller's own, or it is what try_load_or_wait goes on with or returns.
ToCaller(c, op, v) == IF load_or_wait[c] THEN NoRet ELSE Returned(c, op, v)
Yielded(c, op, v) ==
    Returned(c, IF load_or_wait[c] THEN "try_load_or_wait" ELSE op, v)

\* match self.try_load(f): Some(load_handle) => load_handle.await,
\* None => self.wait().await
AfterTryLoad(c, some) ==
    IF ~load_or_wait[c] THEN "idle"
    ELSE IF some THEN "h_poll"
    ELSE "wait_lock"

\* A client task is polled and calls one of the operations.  A client that
\* holds a load handle awaits or drops it before it calls the cell again.
Call(c, op) ==
    /\ pc[c] = "idle"
    /\ ThreadFree
    /\ op \in SyncOps \cup {"try_load", "wait_lock", "try_load_or_wait"}
    /\ hnd[c].kind = "none"
    /\ pc' = [pc EXCEPT ![c] = Entry(op)]
    /\ load_or_wait' = [load_or_wait EXCEPT ![c] = (op = "try_load_or_wait")]
    /\ ret' = NoRet
    /\ UNCHANGED <<res, progress, task_handle, lock, tasks, hnd, notified>>
    /\ UNCHANGED <<workers, data>>

\* get: self.inner.lock().res.clone()
get(c) ==
    /\ pc[c] = "get"
    /\ lock = Free
    /\ ret' = Returned(c, "get", res)
    /\ pc' = [pc EXCEPT ![c] = "idle"]
    /\ UNCHANGED <<res, progress, task_handle, lock, tasks, hnd, notified>>
    /\ UNCHANGED <<workers, load_or_wait, data>>

\* reset written with clone() instead of take().
Taken_Clone == res

\* Option::take leaves None in its place.
Taken == None

\* A reset that also stops the run in flight.
ResetTasks_Stopped == IF task_handle # 0 THEN Abort(tasks, task_handle) ELSE tasks

\* reset does not touch the task of task_handle.
ResetTasks == tasks

\* reset: self.inner.lock().res.take()
reset(c) ==
    /\ pc[c] = "reset"
    /\ lock = Free
    /\ ret' = Returned(c, "reset", res)
    /\ res' = Taken
    /\ tasks' = ResetTasks
    /\ pc' = [pc EXCEPT ![c] = "idle"]
    /\ UNCHANGED <<progress, task_handle, lock, hnd, notified>>
    /\ UNCHANGED <<workers, load_or_wait, data>>

\* progress: self.inner.lock().progress.clone()
get_progress(c) ==
    /\ pc[c] = "progress"
    /\ lock = Free
    /\ ret' = Returned(c, "progress", progress)
    /\ pc' = [pc EXCEPT ![c] = "idle"]
    /\ UNCHANGED <<res, progress, task_handle, lock, tasks, hnd, notified>>
    /\ UNCHANGED <<workers, load_or_wait, data>>

\* task_handle.as_ref().is_some_and(|task| !task.is_finished())
IsLoading == task_handle # 0 /\ ~is_finished(task_handle)

is_loading(c) ==
    /\ pc[c] = "is_loading"
    /\ lock = Free
    /\ ret' = Returned(c, "is_loading", Bool(IsLoading))
    /\ pc' = [pc EXCEPT ![c] = "idle"]
    /\ UNCHANGED <<res, progress, task_handle, lock, tasks, hnd, notified>>
    /\ UNCHANGED <<workers, load_or_wait, data>>

\* stop_loading: abort the task of task_handle, if there is one.
stop_loading(c) ==
    /\ pc[c] = "stop_loading"
    /\ lock = Free
    /\ tasks' = IF task_handle # 0 THEN Abort(tasks, task_handle) ELSE tasks
    /\ pc' = [pc EXCEPT ![c] = "idle"]
    /\ ret' = NoRet
    /\ UNCHANGED <<res, progress, task_handle, lock, hnd, notified>>
    /\ UNCHANGED <<workers, load_or_wait, data>>

\* ---- try_load ---------------------------------------------------------------
\* Task ids are handed out in order; a call reserves the id it may need.
Spawned == {t \in TaskIds : tasks[t].st # "none"}
NextTask == Cardinality(Spawned) + 1
CanSpawn(c) ==
    Cardinality(Spawned) + Cardinality({d \in Clients \ {c} : pc[d] = "try_load"}) < MaxTasks

\* try_load without the "already loading" check.
TryLoadBranch_NoLoadingCheck ==
    IF res # None THEN "loaded" ELSE "spawn"

\* try_load without the "already initialized" check.
TryLoadBranch_NoMemo ==
    IF IsLoading THEN "loading" ELSE "spawn"

\* The branch try_load takes once it holds the lock.
TryLoadBranch ==
    IF IsLoading THEN "loading"
    ELSE IF res # None THEN "loaded"
    ELSE "spawn"

\* A from_loaded handle that does not keep the guard.
LoadedLock_Dropped(c) == Free

\* LoadHandle::from_loaded(inner): the handle keeps try_load's guard.
LoadedLock(c) == ByLoaded(c)

\* try_load up to and including tokio::spawn.
try_load(c) ==
    /\ pc[c] = "try_load"
    /\ lock = Free
    /\ \/ /\ TryLoadBranch = "loading"
          /\ ret' = ToCaller(c, "try_load", None)
          /\ pc' = [pc EXCEPT ![c] = AfterTryLoad(c, FALSE)]
          /\ UNCHANGED <<lock, tasks, hnd>>
       \/ /\ TryLoadBranch = "loaded"
          /\ ret' = ToCaller(c, "try_load", <<"Loaded", 0>>)
          /\ hnd' = [hnd EXCEPT ![c] =
                        [kind |-> "loaded", t |-> 0, aod |-> TRUE, fut |-> load_or_wait[c]]]
          /\ lock' = LoadedLock(c)
          /\ pc' = [pc EXCEPT ![c] = AfterTryLoad(c, TRUE)]
          /\ UNCHANGED tasks
       \/ /\ TryLoadBranch = "spawn"
          /\ NextTask \in TaskIds
          /\ tasks' = [tasks EXCEPT ![NextTask] =
                          [st |-> "idle", out |-> None, abort |-> FALSE, join |-> TRUE]]
          /\ hnd' = [hnd EXCEPT ![c] = [kind |-> "task", t |-> NextTask, aod |-> TRUE, fut |-> FALSE]]
          /\ lock' = ByClient(c)
          /\ pc' = [pc EXCEPT ![c] = "try_load_install"]
          /\ ret' = NoRet
    /\ UNCHANGED <<res, progress, task_handle, notified>>
    /\ UNCHANGED <<workers, load_or_wait, data>>

\* A try_load that leaves task_handle as it was.
Installed_Not(c) == task_handle

\* The abort handle try_load stores: the one of the task it spawned.
Installed(c) == hnd[c].t

\* inner.task_handle = Some(join_handle.abort_handle()); the guard is dropped
\* on return.
try_load_install(c) ==
    /\ pc[c] = "try_load_install"
    /\ task_handle' = Installed(c)
    /\ lock' = Free
    /\ ret' = ToCaller(c, "try_load", <<"Task", hnd[c].t>>)
    /\ hnd' = [hnd EXCEPT ![c].fut = load_or_wait[c]]
    /\ pc' = [pc EXCEPT ![c] = AfterTryLoad(c, TRUE)]
    /\ UNCHANGED <<res, progress, tasks, notified>>
    /\ UNCHANGED <<workers, load_or_wait, data>>

\* ---- wait -------------------------------------------------------------------
\* self.inner.lock(), on entry and after each wake-up.
wait_lock(c) ==
    /\ pc[c] = "wait_lock"
    /\ lock = Free
    /\ lock' = ByClient(c)
    /\ pc' = [pc EXCEPT ![c] = "wait_check"]
    /\ ret' = NoRet
    /\ UNCHANGED <<res, progress, task_handle, tasks, hnd, notified>>
    /\ UNCHANGED <<workers, load_or_wait, data>>

\* match &inner.res
wait_check(c) ==
    /\ pc[c] = "wait_check"
    /\ IF res # None
       THEN /\ ret' = Yielded(c, "wait", res)
            /\ lock' = Free
            /\ pc' = [pc EXCEPT ![c] = "idle"]
            /\ load_or_wait' = [load_or_wait EXCEPT ![c] = FALSE]
       ELSE /\ pc' = [pc EXCEPT ![c] = "wait_register"]
            /\ ret' = NoRet
            /\ UNCHANGED <<lock, load_or_wait>>
    /\ UNCHANGED <<res, progress, task_handle, tasks, hnd, notified>>
    /\ UNCHANGED <<workers, data>>

\* let wait_fut = wait.notified(): from now on notify_waiters reaches it.
wait_register(c) ==
    /\ pc[c] = "wait_register"
    /\ notified' = [notified EXCEPT ![c] = FALSE]
    /\ pc' = [pc EXCEPT ![c] = "wait_drop"]
    /\ ret' = NoRet
    /\ UNCHANGED <<res, progress, task_handle, lock, tasks, hnd>>
    /\ UNCHANGED <<workers, load_or_wait, data>>

\* The lock the waiter has after it dropped `inner`.
WaitDropLock(c) == Free

\* drop(inner); wait_fut.await
wait_drop(c) ==
    /\ pc[c] = "wait_drop"
    /\ lock' = WaitDropLock(c)
    /\ pc' = [pc EXCEPT ![c] = "wait_await"]
    /\ ret' = NoRet
    /\ UNCHANGED <<res, progress, task_handle, tasks, hnd, notified>>
    /\ UNCHANGED <<workers, load_or_wait, data>>

\* The notified waiter is polled again and goes for the lock.
wait_wake(c) ==
    /\ pc[c] = "wait_await"
    /\ notified[c]
    /\ ThreadFree
    /\ notified' = [notified EXCEPT ![c] = FALSE]
    /\ pc' = [pc EXCEPT ![c] = "wait_lock"]
    /\ ret' = NoRet
    /\ UNCHANGED <<res, progress, task_handle, lock, tasks, hnd>>
    /\ UNCHANGED <<workers, load_or_wait, data>>

\* ---- the load handle ----------------------------------------------------------
with_abort_on_drop(c, b) ==
    /\ pc[c] = "idle"
    /\ hnd[c].kind # "none"
    /\ ~hnd[c].fut
    /\ hnd[c].aod # b
    /\ ThreadFree
    /\ hnd' = [hnd EXCEPT ![c].aod = b]
    /\ ret' = NoRet
    /\ UNCHANGED <<res, progress, task_handle, lock, tasks, pc, notified>>
    /\ UNCHANGED <<workers, load_or_wait, data>>

\* into_future, and the first poll of the future begins.
into_future(c) ==
    /\ pc[c] = "idle"
    /\ hnd[c].kind # "none"
    /\ ~hnd[c].fut
    /\ ThreadFree
    /\ hnd' = [hnd EXCEPT ![c].fut = TRUE]
    /\ pc' = [pc EXCEPT ![c] = "h_poll"]
    /\ ret' = NoRet
    /\ UNCHANGED <<res, progress, task_handle, lock, tasks, notified>>
    /\ UNCHANGED <<workers, load_or_wait, data>>

\* inner.res.clone().expect("Value should be loaded")
ReadLoaded == IF res = None THEN ExpectFailed ELSE res

\* A future that reports every JoinError as a cancellation.
JoinError_Cancelled(t) == ErrCancelled

\* The error the future makes of a JoinError.
JoinError(t) == IF tasks[t].st = "panicked" THEN ErrPanicked ELSE ErrCancelled

\* One poll of load_handle_fut_inner's future up to the guard.
handle_poll(c) ==
    /\ pc[c] = "h_poll"
    /\ \/ /\ hnd[c].kind = "loaded"
          /\ ret' = Yielded(c, "handle_loaded", ReadLoaded)
          /\ lock' = Free
          /\ hnd' = [hnd EXCEPT ![c] = NoHandle]
          /\ pc' = [pc EXCEPT ![c] = "idle"]
          /\ load_or_wait' = [load_or_wait EXCEPT ![c] = FALSE]
          /\ UNCHANGED tasks
       \/ /\ hnd[c].kind = "task"
          /\ tasks[hnd[c].t].st = "finished"
          /\ tasks' = [tasks EXCEPT ![hnd[c].t].st = "done"]
          /\ lock' = ByFut(c)
          /\ pc' = [pc EXCEPT ![c] = "h_read"]
          /\ ret' = NoRet
          /\ UNCHANGED <<hnd, load_or_wait>>
       \/ /\ hnd[c].kind = "task"
          /\ tasks[hnd[c].t].st \in {"cancelled", "panicked"}
          /\ ret' = Yielded(c, "handle_task", JoinError(hnd[c].t))
          /\ hnd' = [hnd EXCEPT ![c] = NoHandle]
          /\ pc' = [pc EXCEPT ![c] = "idle"]
          /\ load_or_wait' = [load_or_wait EXCEPT ![c] = FALSE]
          /\ UNCHANGED <<lock, tasks>>
       \/ /\ hnd[c].kind = "task"
          /\ ~is_finished(hnd[c].t)
          /\ pc' = [pc EXCEPT ![c] = "h_await"]
          /\ ret' = NoRet
          /\ UNCHANGED <<lock, tasks, hnd, load_or_wait>>
    /\ UNCHANGED <<res, progress, task_handle, notified>>
    /\ UNCHANGED <<workers, data>>

\* The future holds the guard the task returned: read the result, drop it.
handle_read(c) ==
    /\ pc[c] = "h_read"
    /\ ret' = Yielded(c, "handle_task", ReadLoaded)
    /\ lock' = Free
    /\ hnd' = [hnd EXCEPT ![c] = NoHandle]
    /\ pc' = [pc EXCEPT ![c] = "idle"]
    /\ load_or_wait' = [load_or_wait EXCEPT ![c] = FALSE]
    /\ UNCHANGED <<res, progress, task_handle, tasks, notified>>
    /\ UNCHANGED <<workers, data>>

\* The task the future awaits has finished: the future is polled again.
handle_wake(c) ==
    /\ pc[c] = "h_await"
    /\ is_finished(hnd[c].t)
    /\ ThreadFree
    /\ pc' = [pc EXCEPT ![c] = "h_poll"]
    /\ ret' = NoRet
    /\ UNCHANGED <<res, progress, task_handle, lock, tasks, hnd, notified>>
    /\ UNCHANGED <<workers, load_or_wait, data>>

\* A LoadHandleFut made without its AbortTaskOnDrop.
AbortsOnDrop_Never(c) == FALSE

\* A handle that aborts its task when dropped whatever its setting.
AbortsOnDrop_Always(c) == hnd[c].kind = "task"

\* Whether dropping the client's handle aborts the task: AbortTaskOnDrop
\* exists only in a LoadHandleFut made with abort_on_drop.
AbortsOnDrop(c) == hnd[c].kind = "task" /\ hnd[c].fut /\ hnd[c].aod

\* What is dropped: the handle's abort_on_drop setting and its task (0: none).
Dropped(c) == <<IF hnd[c].aod THEN "abort_on_drop" ELSE "detach", hnd[c].t>>

\* The LoadHandle, or its future while suspended, is dropped.
handle_drop(c) ==
    /\ pc[c] \in {"idle", "h_await"}
    /\ hnd[c].kind # "none"
    /\ ThreadFree
    /\ IF hnd[c].kind = "loaded"
       THEN /\ lock' = Free
            /\ UNCHANGED tasks
       ELSE /\ lock' = DropJoinLock(hnd[c].t)
            /\ tasks' = IF AbortsOnDrop(c)
                        THEN Abort(DropJoinTasks(tasks, hnd[c].t), hnd[c].t)
                        ELSE DropJoinTasks(tasks, hnd[c].t)
    /\ hnd' = [hnd EXCEPT ![c] = NoHandle]
    /\ pc' = [pc EXCEPT ![c] = "idle"]
    /\ load_or_wait' = [load_or_wait EXCEPT ![c] = FALSE]
    /\ ret' = Returned(c, IF hnd[c].fut THEN "future_drop" ELSE "handle_drop", Dropped(c))
    /\ UNCHANGED <<res, progress, task_handle, notified>>
    /\ UNCHANGED <<workers, data>>

\* ---- the loader task ------------------------------------------------------------
\* The task can be polled: it waits in `fut.await` and was not aborted.
Pollable(t) == tasks[t].st = "idle" /\ ~tasks[t].abort /\ ThreadFree

\* The producer calls ProgressUpdater::update(p).
producer_update(t, p) ==
    /\ Pollable(t)
    /\ tasks' = [tasks EXCEPT ![t].st = "update", ![t].out = Some(p)]
    /\ ret' = NoRet
    /\ UNCHANGED <<res, progress, task_handle, lock, pc, hnd, notified>>
    /\ UNCHANGED <<workers, load_or_wait, data>>

\* *self.progress.lock() = Some(progress), and the producer suspends again.
update(t) ==
    /\ tasks[t].st = "update"
    /\ lock = Free
    /\ progress' = tasks[t].out
    /\ tasks' = [tasks EXCEPT ![t].st = "idle", ![t].out = None]
    /\ ret' = NoRet
    /\ UNCHANGED <<res, task_handle, lock, pc, hnd, notified>>
    /\ UNCHANGED <<workers, load_or_wait, data>>

\* The closures handed to update_with: every function on ProgVals, numbered.
\* Mutate(k, p) is what closure k leaves in a P that holds p.
Mutations == 0..(Cardinality(ProgVals) ^ Cardinality(ProgVals) - 1)
Mutate(k, p) == (k \div (Cardinality(ProgVals) ^ p)) % Cardinality(ProgVals)

\* The producer calls ProgressUpdater::update_with(f), f being closure k.
producer_update_with(t, k) ==
    /\ Pollable(t)
    /\ tasks' = [tasks EXCEPT ![t].st = "update_with", ![t].out = <<"With", k>>]
    /\ ret' = NoRet
    /\ UNCHANGED <<res, progress, task_handle, lock, pc, hnd, notified>>
    /\ UNCHANGED <<workers, load_or_wait, data>>

\* An updater that hands the closure a fresh default each time.
get_or_insert_default_Fresh(p) == DefaultProg

\* Option::get_or_insert_default: the value held, a default one if none is.
get_or_insert_default(p) == IF p = None THEN DefaultProg ELSE p[2]

\* f(self.progress.lock().get_or_insert_default()), and the producer suspends
\* again; `ret` tells the progress the call found.
update_with(t) ==
    /\ tasks[t].st = "update_with"
    /\ lock = Free
    /\ progress' = Some(Mutate(tasks[t].out[2], get_or_insert_default(progress)))
    /\ tasks' = [tasks EXCEPT ![t].st = "idle", ![t].out = None]
    /\ ret' = Returned(0, "update_with", progress)
    /\ UNCHANGED <<res, task_handle, lock, pc, hnd, notified>>
    /\ UNCHANGED <<workers, load_or_wait, data>>

\* let res = fut.await: the producer returns r.
producer_return(t, r) ==
    /\ Pollable(t)
    /\ tasks' = [tasks EXCEPT ![t].st = "lock", ![t].out = r]
    /\ ret' = NoRet
    /\ UNCHANGED <<res, progress, task_handle, lock, pc, hnd, notified>>
    /\ UNCHANGED <<workers, load_or_wait, data>>

\* The producer panics; tokio catches it at the task boundary.
producer_panic(t) ==
    /\ Pollable(t)
    /\ tasks' = [tasks EXCEPT ![t].st = "panicked"]
    /\ ret' = NoRet
    /\ UNCHANGED <<res, progress, task_handle, lock, pc, hnd, notified>>
    /\ UNCHANGED <<workers, load_or_wait, data>>

\* An aborted task is scheduled and torn down instead of polled.
task_cancel(t) ==
    /\ tasks[t].st = "idle"
    /\ tasks[t].abort
    /\ ThreadFree
    /\ tasks' = [tasks EXCEPT ![t].st = "cancelled", ![t].abort = FALSE]
    /\ ret' = NoRet
    /\ UNCHANGED <<res, progress, task_handle, lock, pc, hnd, notified>>
    /\ UNCHANGED <<workers, load_or_wait, data>>

\* let mut inner = inner.lock_arc()
task_lock(t) ==
    /\ tasks[t].st = "lock"
    /\ lock = Free
    /\ lock' = ByTask(t)
    /\ tasks' = [tasks EXCEPT ![t].st = "write"]
    /\ ret' = NoRet
    /\ UNCHANGED <<res, progress, task_handle, pc, hnd, notified>>
    /\ UNCHANGED <<workers, load_or_wait, data>>

\* A task that does not store what the producer returned.
Written_Nothing(t) == None

\* The value the task stores: what `fut.await` gave.
Written(t) == tasks[t].out

\* A task that lets go of the lock once it has written.
WriteLock_Released(t) == Free

\* The task keeps its guard from the write on.
WriteLock(t) == lock

\* inner.res = Some(res)
task_write(t) ==
    /\ tasks[t].st = "write"
    /\ res' = Written(t)
    /\ lock' = WriteLock(t)
    /\ tasks' = [tasks EXCEPT ![t].st = "clear"]
    /\ ret' = NoRet
    /\ UNCHANGED <<progress, task_handle, pc, hnd, notified>>
    /\ UNCHANGED <<workers, load_or_wait, data>>

\* A task that leaves the progress in place.
Cleared_Kept == progress

\* The progress the task leaves behind.
Cleared == None

\* inner.progress = None
task_clear(t) ==
    /\ tasks[t].st = "clear"
    /\ progress' = Cleared
    /\ tasks' = [tasks EXCEPT ![t].st = "notify"]
    /\ ret' = NoRet
    /\ UNCHANGED <<res, task_handle, lock, pc, hnd, notified>>
    /\ UNCHANGED <<workers, load_or_wait, data>>

\* The clients whose Notified future exists.
Waiting == {c \in Clients : pc[c] \in {"wait_drop", "wait_await"}}

\* Notify::notify_waiters
NotifyWaiters == [c \in Clients |-> notified[c] \/ c \in Waiting]

\* inner.wait.notify_waiters()
task_notify(t) ==
    /\ tasks[t].st = "notify"
    /\ notified' = NotifyWaiters
    /\ tasks' = [tasks EXCEPT ![t].st = "ret"]
    /\ ret' = NoRet
    /\ UNCHANGED <<res, progress, task_handle, lock, pc, hnd>>
    /\ UNCHANGED <<workers, load_or_wait, data>>

\* A task that drops its guard when it returns.
ReturnLock_Dropped(t) == Free

\* The guard is the task's output: it stays locked while a JoinHandle can take
\* the output, and is dropped at once when the JoinHandle is gone.
ReturnLock(t) == IF tasks[t].join THEN lock ELSE Free

\* The task returns the guard.
task_return(t) ==
    /\ tasks[t].st = "ret"
    /\ tasks' = [tasks EXCEPT ![t].st = IF tasks[t].join THEN "finished" ELSE "done",
                              ![t].abort = FALSE]
    /\ lock' = ReturnLock(t)
    /\ ret' = NoRet
    /\ UNCHANGED <<res, progress, task_handle, pc, hnd, notified>>
    /\ UNCHANGED <<workers, load_or_wait, data>>

\* ---- the specification ------------------------------------------------------------
\* The steps a client and a task take once an operation is under way.
ClientStep(c) ==
    \/ stop_loading(c)
    \/ try_load(c)
    \/ try_load_install(c)
    \/ wait_lock(c)
    \/ wait_check(c)
    \/ wait_register(c)
    \/ wait_drop(c)
    \/ wait_wake(c)
    \/ into_future(c)
    \/ handle_poll(c)
    \/ handle_read(c)
    \/ handle_wake(c)

TaskStep(t) ==
    \/ update(t)
    \/ update_with(t)
    \/ task_cancel(t)
    \/ task_lock(t)
    \/ task_write(t)
    \/ task_clear(t)
    \/ task_notify(t)
    \/ task_return(t)

\* What the producer closure does when polled.
Producer(t) ==
    \/ \E p \in Progs : producer_update(t, p)
    \/ \E k \in Mutations : producer_update_with(t, k)
    \/ \E r \in Outcomes : producer_return(t, r)
    \/ producer_panic(t)

\* The operations a client may call in the runs without observers and reset.
LoadOps == {"try_load", "wait_lock", "stop_loading"}

CallOf(c, ops) ==
    \E op \in ops :
        /\ (Entry(op) = "try_load" => CanSpawn(c))
        /\ Call(c, op)

Next ==
    \/ \E c \in Clients : CallOf(c, SyncOps \cup {"try_load", "wait_lock", "try_load_or_wait"})
    \/ \E c \in Clients : get(c)
    \/ \E c \in Clients : reset(c)
    \/ \E c \in Clients : get_progress(c)
    \/ \E c \in Clients : is_loading(c)
    \/ \E c \in Clients : ClientStep(c)
    \/ \E c \in Clients, b \in BOOLEAN : with_abort_on_drop(c, b)
    \/ \E c \in Clients : handle_drop(c)
    \/ \E t \in TaskIds : Producer(t)
    \/ \E t \in TaskIds : TaskStep(t)

Spec == Init /\ [][Next]_vars

\* Loading, waiting and stopping only: no reset, no observers.
NextLoad ==
    \/ \E c \in Clients : CallOf(c, LoadOps)
    \/ \E c \in Clients : ClientStep(c)
    \/ \E c \in Clients, b \in BOOLEAN : with_abort_on_drop(c, b)
    \/ \E c \in Clients : handle_drop(c)
    \/ \E t \in TaskIds : Producer(t)
    \/ \E t \in TaskIds : TaskStep(t)

\* The runtime polls every task that can run whenever a worker is free and
\* the mutex is eventually fair, so a step of an operation under way that is
\* enabled again and again is taken; a client holding a handle awaits it.
\* Calling an operation, dropping a handle, and what the producer does are
\* left to the program.
Fairness ==
    /\ \A c \in Clients : SF_vars(ClientStep(c))
    /\ \A t \in TaskIds : SF_vars(TaskStep(t))

FairLoadSpec == Init /\ [][NextLoad]_vars /\ Fairness

\* Loading, waiting, stopping and reset.
NextReset ==
    \/ \E c \in Clients : CallOf(c, LoadOps \cup {"reset"})
    \/ \E c \in Clients : reset(c)
    \/ \E c \in Clients : ClientStep(c)
    \/ \E c \in Clients, b \in BOOLEAN : with_abort_on_drop(c, b)
    \/ \E c \in Clients : handle_drop(c)
    \/ \E t \in TaskIds : Producer(t)
    \/ \E t \in TaskIds : TaskStep(t)

\* A reset() under way completes as soon as the mutex is free.
FairResetSpec ==
    Init /\ [][NextReset]_vars /\ Fairness /\ \A c \in Clients : SF_vars(reset(c))

\* Loading, waiting, stopping and get.
NextGet ==
    \/ \E c \in Clients : CallOf(c, LoadOps \cup {"get"})
    \/ \E c \in Clients : get(c)
    \/ \E c \in Clients : ClientStep(c)
    \/ \E c \in Clients, b \in BOOLEAN : with_abort_on_drop(c, b)
    \/ \E c \in Clients : handle_drop(c)
    \/ \E t \in TaskIds : Producer(t)
    \/ \E t \in TaskIds : TaskStep(t)

\* A get() under way completes as soon as the mutex is free.
FairGetSpec ==
    Init /\ [][NextGet]_vars /\ Fairness /\ \A c \in Clients : SF_vars(get(c))

\* ---- KeyedParIter and KVParIter ---------------------------------------------------
\* The sequences an input iterator can yield: (key, value) pairs, the keys
\* strictly increasing.
RECURSIVE Ascending(_, _)
Ascending(S, f) ==
    IF S = {} THEN <<>>
    ELSE LET k == CHOOSE x \in S : \A y \in S : x <= y
         IN  <<<<k, f[k]>>>> \o Ascending(S \ {k}, f)

SortedInputs == {Ascending(S, f) : S \in SUBSET Keys, f \in [Keys -> Items]}

\* Iterator::next of an input.
IterNext(seq) == IF seq = <<>> THEN None ELSE Some(Head(seq))

\* KeyedParIter::next_left: the cached item if it is a left one, else
\* self.left.next().  The result is the item and the iterator after the call.
next_left(it) ==
    IF it.value # None /\ it.value[2][1] = "Left"
    THEN [item |-> Some(it.value[2][2]), it |-> [it EXCEPT !.value = None]]
    ELSE [item |-> IterNext(it.left),
          it |-> [it EXCEPT !.left = IF it.left = <<>> THEN <<>> ELSE Tail(it.left)]]

\* KeyedParIter::next_right
next_right(it) ==
    IF it.value # None /\ it.value[2][1] = "Right"
    THEN [item |-> Some(it.value[2][2]), it |-> [it EXCEPT !.value = None]]
    ELSE [item |-> IterNext(it.right),
          it |-> [it EXCEPT !.right = IF it.right = <<>> THEN <<>> ELSE Tail(it.right)]]

\* PartialOrd::partial_cmp of two keys.
partial_cmp(a, b) == IF a < b THEN "Less" ELSE IF a > b THEN "Greater" ELSE "Equal"

\* A next() that does not keep the item it did not yield.
Cached_Dropped(ord, left, right) == None

\* The item next() caches when it got both a left and a right item.
Cached(ord, left, right) ==
    IF ord = "Less" THEN Some(<<"Right", right>>)
    ELSE IF ord = "Greater" THEN Some(<<"Left", left>>)
    ELSE None

\* The ParIterValue next() yields when it got both.
Yield(ord, left, right) ==
    IF ord = "Less" THEN <<"Left", left>>
    ELSE IF ord = "Greater" THEN <<"Right", right>>
    ELSE <<"Both", left, right>>

\* KeyedParIter::next: the value returned (None at the end) and the iterator
\* after the call.
keyed_next(it) ==
    LET l == next_left(it)
        r == next_right(l.it)
        ord == partial_cmp(l.item[2][1], r.item[2][1])
    IN  IF l.item # None /\ r.item = None
            THEN [ret |-> Some(<<"Left", l.item[2]>>), it |-> r.it]
        ELSE IF l.item = None /\ r.item # None
            THEN [ret |-> Some(<<"Right", r.item[2]>>), it |-> r.it]
        ELSE IF l.item # None /\ r.item # None
            THEN [ret |-> Some(Yield(ord, l.item[2], r.item[2])),
                  it |-> [r.it EXCEPT !.value = Cached(ord, l.item[2], r.item[2])]]
        ELSE [ret |-> None, it |-> r.it]

\* KVParIter::next_left: the cache holds (key, Either<value, value>).
kv_next_left(it) ==
    IF it.value # None /\ it.value[2][2][1] = "Left"
    THEN [item |-> Some(<<it.value[2][1], it.value[2][2][2]>>),
          it |-> [it EXCEPT !.value = None]]
    ELSE [item |-> IterNext(it.left),
          it |-> [it EXCEPT !.left = IF it.left = <<>> THEN <<>> ELSE Tail(it.left)]]

\* KVParIter::next_right
kv_next_right(it) ==
    IF it.value # None /\ it.value[2][2][1] = "Right"
    THEN [item |-> Some(<<it.value[2][1], it.value[2][2][2]>>),
          it |-> [it EXCEPT !.value = None]]
    ELSE [item |-> IterNext(it.right),
          it |-> [it EXCEPT !.right = IF it.right = <<>> THEN <<>> ELSE Tail(it.right)]]

\* KVParIter::next: yields (key, ParIterValue of the values).
kv_next(it) ==
    LET l == kv_next_left(it)
        r == kv_next_right(l.it)
        left_key == l.item[2][1]
        left == l.item[2][2]
        right_key == r.item[2][1]
        right == r.item[2][2]
    IN  IF l.item # None /\ r.item = None
            THEN [ret |-> Some(<<left_key, <<"Left", left>>>>), it |-> r.it]
        ELSE IF l.item = None /\ r.item # None
            THEN [ret |-> Some(<<right_key, <<"Right", right>>>>), it |-> r.it]
        ELSE IF l.item # None /\ r.item # None /\ left_key = right_key
            THEN [ret |-> Some(<<left_key, <<"Both", left, right>>>>), it |-> r.it]
        ELSE IF l.item # None /\ r.item # None
            THEN IF left_key < right_key
                 THEN [ret |-> Some(<<left_key, <<"Left", left>>>>),
                       it |-> [r.it EXCEPT !.value = Some(<<right_key, <<"Right", right>>>>)]]
                 ELSE [ret |-> Some(<<right_key, <<"Right", right>>>>),
                       it |-> [r.it EXCEPT !.value = Some(<<left_key, <<"Left", left>>>>)]]
        ELSE [ret |-> None, it |-> r.it]

\* The iterator is advanced once: for item in iter { .. }
par_iter_next ==
    /\ ~par_iter.done
    /\ LET n == IF par_iter.kind = "KeyedParIter" THEN keyed_next(par_iter)
                ELSE kv_next(par_iter)
       IN  par_iter' = IF n.ret = None
                       THEN [n.it EXCEPT !.done = TRUE]
                       ELSE [n.it EXCEPT !.out = Append(@, n.ret[2])]
    /\ UNCHANGED <<cell, map_vector, all_errs, numbers, file_writer, file_lock>>

\* One iterator over two sorted inputs, driven to its end.
ParIterInit ==
    /\ NewCell(1)
    /\ map_vector = NewMapVector
    /\ all_errs = NewAllErrs
    /\ numbers = NoCall
    /\ file_writer = memory
    /\ file_lock = NoLockFile
    /\ \E kind \in {"KeyedParIter", "KVParIter"}, l \in SortedInputs, r \in SortedInputs :
          par_iter = NewParIter(kind, l, r)

ParIterNext == par_iter_next

ParIterSpec == ParIterInit /\ [][ParIterNext]_vars

\* ---- BTreeMapVector ---------------------------------------------------------------
\* slice::sort_unstable on values whose equal elements are identical: the
\* smallest element first, then the rest sorted.
RECURSIVE sort_unstable(_)
sort_unstable(values) ==
    IF values = <<>> THEN <<>>
    ELSE LET i == CHOOSE x \in DOMAIN values : \A y \in DOMAIN values : values[x] <= values[y]
             rest == SubSeq(values, 1, i - 1) \o SubSeq(values, i + 1, Len(values))
         IN  <<values[i]>> \o sort_unstable(rest)

\* BTreeMapVector::insert: push the value onto the key's values, then sort
\* them.
insert(key, value) ==
    /\ Len(map_vector.inserted) < MaxInserts
    /\ map_vector' =
          [map |-> [map_vector.map EXCEPT ![key] = sort_unstable(Append(@, value))],
           inserted |-> Append(map_vector.inserted, <<key, value>>),
           ranged |-> None]
    /\ UNCHANGED <<cell, par_iter, all_errs, numbers, file_writer, file_lock>>

\* flat_map over the keys from..=to in ascending order, each with the values
\* of its vector in their order.
RECURSIVE flat_map(_, _, _)
flat_map(map, from, to) ==
    IF from > to THEN <<>>
    ELSE [i \in 1..Len(map[from]) |-> <<from, map[from][i]>>] \o flat_map(map, from + 1, to)

\* BTreeMapVector::range over from..=to
range(from, to) ==
    /\ from <= to
    /\ map_vector' = [map_vector EXCEPT
                         !.ranged = Some(<<from, to, flat_map(map_vector.map, from, to)>>)]
    /\ UNCHANGED <<cell, par_iter, all_errs, numbers, file_writer, file_lock>>

MapVectorInit ==
    /\ NewCell(1)
    /\ NoData

MapVectorNext ==
    \/ \E key \in Keys, value \in Items : insert(key, value)
    \/ \E from \in Keys, to \in Keys : range(from, to)

MapVectorSpec == MapVectorInit /\ [][MapVectorNext]_vars

\* The collections and helpers below start empty, next to a cell left alone.
DataInit ==
    /\ NewCell(1)
    /\ NoData

\* ---- AllErrs ----------------------------------------------------------------------
\* The iterators handed to collect and extend: Result items, at most
\* MaxResults of them.
Results == {Ok(v) : v \in Items} \cup {Err(v) : v \in Items}
Iters == UNION {[1..n -> Results] : n \in 0..MaxResults}

\* Itertools::partition_result: the Ok values into the first collection and
\* the Err values into the second, each in the order met.
RECURSIVE partition_result(_)
partition_result(iter) ==
    IF iter = <<>> THEN <<<<>>, <<>>>>
    ELSE LET rest == partition_result(Tail(iter))
             item == Head(iter)
         IN  IF item[1] = "Ok" THEN <<<<item[2]>> \o rest[1], rest[2]>>
             ELSE <<rest[1], <<item[2]>> \o rest[2]>>

\* AllErrs::from_iter
FromIter(iter) ==
    LET values == partition_result(iter)[1]
        errs == partition_result(iter)[2]
    IN  IF errs = <<>> THEN Ok(values) ELSE Err(errs)

\* An extend that forgets the error that switched it to errors.
SwitchToErrs_Empty(err) == Err(<<>>)

\* `*self = Self::Err(vec![err])`
SwitchToErrs(err) == Err(<<err>>)

\* One turn of the loop of AllErrs::extend.
ExtendOne(this, item) ==
    IF this[1] = "Ok" /\ item[1] = "Ok" THEN Ok(Append(this[2], item[2]))
    ELSE IF this[1] = "Ok" /\ item[1] = "Err" THEN SwitchToErrs(item[2])
    ELSE IF this[1] = "Err" /\ item[1] = "Ok" THEN this
    ELSE Err(Append(this[2], item[2]))

\* The loop of AllErrs::extend over the whole iterator.
RECURSIVE Extend(_, _)
Extend(this, iter) ==
    IF iter = <<>> THEN this ELSE Extend(ExtendOne(this, Head(iter)), Tail(iter))

\* iter.collect::<AllErrs<_>>()
from_iter(iter) ==
    /\ all_errs' = [this |-> FromIter(iter), fed |-> iter, op |-> "from_iter"]
    /\ UNCHANGED <<cell, par_iter, map_vector, numbers, file_writer, file_lock>>

\* all_errs.extend(iter)
extend(iter) ==
    /\ Len(all_errs.fed) + Len(iter) <= MaxResults
    /\ all_errs' = [this |-> Extend(all_errs.this, iter),
                    fed |-> all_errs.fed \o iter, op |-> "extend"]
    /\ UNCHANGED <<cell, par_iter, map_vector, numbers, file_writer, file_lock>>

AllErrsNext ==
    \/ \E iter \in Iters : from_iter(iter)
    \/ \E iter \in Iters : extend(iter)

AllErrsSpec == DataInit /\ [][AllErrsNext]_vars

\* ---- abs_diff and the signed offsets ---------------------------------------------
\* The helpers take u64 and i64; the model keeps the two's complement
\* arithmetic and narrows the width to Bits.
UnsignedMax == 2^Bits - 1
SignedMax == 2^(Bits - 1) - 1
SignedMin == -(2^(Bits - 1))
Unsigned == 0..UnsignedMax
Signed == SignedMin..SignedMax

Num(n) == <<"Num", n>>
Panic == <<"Panic", 0>>

\* `x as u64` of a signed x and `x as i64` of an unsigned x: the same bits.
AsUnsigned(x) == x % 2^Bits
AsSigned(x) == IF x > SignedMax THEN x - 2^Bits ELSE x

\* i64::checked_neg, u64::saturating_add, saturating_sub, checked_add and
\* checked_sub.
checked_neg(b) == IF b = SignedMin THEN None ELSE Some(-b)
saturating_add(a, b) == IF a + b > UnsignedMax THEN UnsignedMax ELSE a + b
saturating_sub(a, b) == IF a < b THEN 0 ELSE a - b
checked_add(a, b) == IF a + b > UnsignedMax THEN None ELSE Some(a + b)
checked_sub(a, b) == IF a < b THEN None ELSE Some(a - b)

\* The result of abs_diff(a, b).
AbsDiff(a, b) ==
    LET diff == IF a > b THEN a - b ELSE b - a
    IN  IF diff > AsUnsigned(SignedMax) THEN Panic
        ELSE IF a > b THEN Num(AsSigned(diff))
        ELSE Num(-AsSigned(diff))

\* A negation of b that takes the signed minimum for zero.
NegB_Zero(b) == IF checked_neg(b) # None THEN AsUnsigned(checked_neg(b)[2]) ELSE 0

\* `neg_b` of the signed offsets: -b as an unsigned number.
NegB(b) ==
    IF checked_neg(b) # None THEN AsUnsigned(checked_neg(b)[2])
    ELSE AsUnsigned(SignedMax) + 1

\* The result of saturating_signed_offset(a, b).
SaturatingSignedOffset(a, b) ==
    IF b > 0 THEN Num(saturating_add(a, AsUnsigned(b)))
    ELSE Num(saturating_sub(a, NegB(b)))

\* The result of checked_signed_offset(a, b).
CheckedSignedOffset(a, b) ==
    IF b > 0 THEN checked_add(a, AsUnsigned(b))
    ELSE checked_sub(a, NegB(b))

abs_diff(a, b) ==
    /\ numbers' = [op |-> "abs_diff", a |-> a, b |-> b, ret |-> AbsDiff(a, b)]
    /\ UNCHANGED <<cell, par_iter, map_vector, all_errs, file_writer, file_lock>>

saturating_signed_offset(a, b) ==
    /\ numbers' = [op |-> "saturating_signed_offset", a |-> a, b |-> b,
                   ret |-> SaturatingSignedOffset(a, b)]
    /\ UNCHANGED <<cell, par_iter, map_vector, all_errs, file_writer, file_lock>>

checked_signed_offset(a, b) ==
    /\ numbers' = [op |-> "checked_signed_offset", a |-> a, b |-> b,
                   ret |-> CheckedSignedOffset(a, b)]
    /\ UNCHANGED <<cell, par_iter, map_vector, all_errs, file_writer, file_lock>>

NumbersNext ==
    \/ \E a \in Unsigned, b \in Unsigned : abs_diff(a, b)
    \/ \E a \in Unsigned, b \in Signed : saturating_signed_offset(a, b)
    \/ \E a \in Unsigned, b \in Signed : checked_signed_offset(a, b)

NumbersSpec == DataInit /\ [][NumbersNext]_vars

\* ---- Logger and its FileWriter --------------------------------------------------
\* The events Logger::set_file logs itself, as bytes apart from the others.
LoggingToFile == MaxItem + 1
UnableToCreate == MaxItem + 2

\* FileWriterKindGuard::write of one byte, with the writer locked: into the
\* file, into the Vec, or nowhere.
Write(fw, buf) ==
    [fw EXCEPT
        !.files = IF fw.kind = "File"
                  THEN [@ EXCEPT ![fw.path] = Append(@, buf)] ELSE @,
        !.bytes = IF fw.kind = "Memory" THEN Append(@, buf) ELSE @,
        !.produced = Append(@, buf)]

\* fs::File::create followed by FileWriter::set_file: the file is truncated,
\* gets the captured bytes if the writer was writing into memory, and becomes
\* the writer's kind.
SetFile(fw, path) ==
    [fw EXCEPT
        !.files = [@ EXCEPT ![path] = IF fw.kind = "Memory" THEN fw.bytes ELSE <<>>],
        !.kind = "File", !.path = path, !.bytes = <<>>]

\* FileWriter::set_empty
SetEmpty(fw) == [fw EXCEPT !.kind = "None", !.path = 0, !.bytes = <<>>]

\* An event is logged through the file layer.
write(buf) ==
    /\ Len(file_writer.produced) < MaxWrites
    /\ file_writer' = Write(file_writer, buf)
    /\ UNCHANGED <<cell, par_iter, map_vector, all_errs, numbers, file_lock>>

\* Logger::set_file(Some(path)) whose File::create succeeds (created) or
\* fails, and the event it logs; `logged` is whether the file layer's filter
\* lets that event through.
set_file_some(path, created, logged) ==
    /\ Len(file_writer.produced) < MaxWrites
    /\ file_writer' =
          IF created
          THEN IF logged THEN Write(SetFile(file_writer, path), LoggingToFile)
               ELSE SetFile(file_writer, path)
          ELSE IF logged THEN SetEmpty(Write(file_writer, UnableToCreate))
               ELSE SetEmpty(file_writer)
    /\ UNCHANGED <<cell, par_iter, map_vector, all_errs, numbers, file_lock>>

\* Logger::set_file(None)
set_file_none ==
    /\ file_writer' = SetEmpty(file_writer)
    /\ UNCHANGED <<cell, par_iter, map_vector, all_errs, numbers, file_lock>>

LoggerNext ==
    \/ \E buf \in Items : write(buf)
    \/ \E path \in Paths, created \in BOOLEAN, logged \in BOOLEAN :
          set_file_some(path, created, logged)
    \/ set_file_none

LoggerSpec == DataInit /\ [][LoggerNext]_vars

\* ---- FileLock ---------------------------------------------------------------------
\* fs::remove_file of the lock's path: it succeeds when the file is there and
\* the file system lets it (`io`).  The file after the call and the result.
RemoveFile(exists, io) ==
    [exists |-> exists /\ ~io, ret |-> IF exists /\ io THEN Ok(0) ELSE Err(0)]

\* An unlock after which the destructor still runs.
RunsDrop_AfterUnlock(op) == TRUE

\* Whether the destructor of the FileLock runs at the end of the call:
\* unlock forgets the value, dropping it runs Drop::drop.
RunsDrop(op) == op = "drop"

\* FileLock::new by process p: create_new opens the file only if it does
\* not exist.
new(p, io) ==
    /\ p \notin file_lock.live
    /\ file_lock.made < MaxLocks
    /\ LET opened == ~file_lock.exists /\ io
       IN  file_lock' =
              [exists |-> file_lock.exists \/ opened,
               live |-> IF opened THEN file_lock.live \cup {p} ELSE file_lock.live,
               removals |-> [file_lock.removals EXCEPT ![p] = IF opened THEN 0 ELSE @],
               made |-> IF opened THEN file_lock.made + 1 ELSE file_lock.made,
               last |-> [op |-> "new", p |-> p, existed |-> file_lock.exists,
                         val |-> IF opened THEN Some(p) ELSE None]]
    /\ UNCHANGED <<cell, par_iter, map_vector, all_errs, numbers, file_writer>>

\* The FileLock of process p ends through `op`: FileLock::unlock calls
\* unlock_ref_mut and forgets the value, a drop runs the destructor, which
\* calls unlock_ref_mut.
Release(p, op, io, io_drop) ==
    LET first == IF op = "unlock" THEN RemoveFile(file_lock.exists, io)
                 ELSE [exists |-> file_lock.exists, ret |-> None]
        second == IF RunsDrop(op) THEN RemoveFile(first.exists, io_drop)
                  ELSE [exists |-> first.exists, ret |-> None]
    IN  /\ p \in file_lock.live
        /\ file_lock' =
              [file_lock EXCEPT
                  !.exists = second.exists,
                  !.live = @ \ {p},
                  !.removals[p] = (IF op = "unlock" THEN 1 ELSE 0)
                                  + (IF RunsDrop(op) THEN 1 ELSE 0),
                  !.last = [op |-> op, p |-> p, existed |-> file_lock.exists,
                            val |-> IF op = "unlock" THEN first.ret ELSE second.ret]]
        /\ UNCHANGED <<cell, par_iter, map_vector, all_errs, numbers, file_writer>>

\* FileLock::unlock
unlock(p, io) == \E io_drop \in BOOLEAN : Release(p, "unlock", io, io_drop)

\* Drop::drop of a FileLock
drop(p, io) == Release(p, "drop", io, io)

FileLockNext ==
    \/ \E p \in Procs, io \in BOOLEAN : new(p, io)
    \/ \E p \in Procs, io \in BOOLEAN : unlock(p, io)
    \/ \E p \in Procs, io \in BOOLEAN : drop(p, io)

FileLockSpec == DataInit /\ [][FileLockNext]_vars

\* ---- properties ------------------------------------------------------------------
\* The loader tasks whose computation is in flight (spawned, not finished).
InFlight == {t \in TaskIds : tasks[t].st \notin ({"none"} \cup FinishedSts)}

\* C2: at most one producer computation is in flight in every reachable state;
\* a try_load that returned None found a run in flight and unfinished, one that
\* returned an already-loaded handle found a memoized result and no run, and
\* one that returned a task handle spawned the only run there is.
C2_AtMostOneRun ==
    /\ Cardinality(InFlight) <= 1
    /\ ret.op = "try_load" =>
          \/ ret.val = None /\ IsLoading
          \/ ret.val[1] = "Loaded" /\ res # None /\ InFlight = {}
          \/ ret.val[1] = "Task" /\ InFlight \subseteq {ret.val[2]}

\* A try_load was turned away while another client's run was in flight.
C2_Witness ==
    /\ ret.op = "try_load"
    /\ ret.val = None
    /\ Cardinality(InFlight) = 1
    /\ \E c \in Clients \ {ret.c} : hnd[c].kind = "task" /\ hnd[c].t \in InFlight

\* C3: with a memoized result in place, try_load spawns nothing, leaves the
\* result alone and returns an already-loaded handle; the result does not
\* change while that handle is held, and the handle resolves to it.
C3_IdempotentReentry ==
    /\ [][\A c \in Clients :
            (pc[c] = "try_load" /\ pc'[c] # "try_load" /\ res # None) =>
                (hnd'[c].kind = "loaded" /\ tasks' = tasks /\ res' = res)]_vars
    /\ [][\A c \in Clients :
            (lock = ByLoaded(c) /\ lock' = ByLoaded(c)) =>
                (res' = res /\ Spawned' = Spawned)]_vars
    /\ [](ret.op = "handle_loaded" => (ret.val = res /\ res \in Outcomes))

\* An already-loaded handle resolved to the memoized outcome of a finished run.
C3_Witness ==
    /\ ret.op = "handle_loaded"
    /\ ret.val \in Outcomes
    /\ \E t \in TaskIds : tasks[t].st = "done" /\ tasks[t].out = ret.val

\* C4: reset returns what was stored and leaves the result empty; an empty
\* result of a cell with no run in flight stays empty, so a second reset (and
\* a get) right after returns None.
C4_ResetClearsOnce ==
    /\ [][\A c \in Clients :
            (pc[c] = "reset" /\ pc'[c] = "idle") =>
                (ret' = Returned(c, "reset", res) /\ res' = None)]_vars
    /\ [][(res = None /\ InFlight = {}) => res' = None]_vars
    /\ [](ret.op = "reset" => res = None)

\* A reset on an idle cell whose run had completed returned None: the result
\* had been taken by an earlier reset.
C4_Witness ==
    /\ ret.op = "reset"
    /\ ret.val = None
    /\ InFlight = {}
    /\ \E t \in TaskIds : tasks[t].st = "done"

\* The current run has ended by the producer returning (Ok or Err) or by
\* cancellation.
RunEnded ==
    task_handle # 0 /\ tasks[task_handle].st \in {"finished", "done", "cancelled"}

\* C5: a progress() answered while the run is in flight and the producer's
\* last update is in place returns it, and one answered once the run has ended
\* (by success, by producer failure or by cancellation) returns None.
C5_ProgressAbsentAfterRun ==
    ret.op = "progress" =>
        /\ IsLoading => ret.val = progress
        /\ RunEnded => ret.val = None

\* The producer of the current run has not returned.
GateClosed == task_handle # 0 /\ tasks[task_handle].st \in {"idle", "update", "update_with"}

\* C6: while the producer of the current run has not returned, get() returns
\* None, is_loading() returns true and the run's handle has not resolved; when
\* the handle of a run that returned resolves, it yields the producer's
\* outcome, the result holds that outcome and the cell is not loading.
C6_Lifecycle ==
    /\ GateClosed =>
          /\ ret.op = "get" => ret.val = None
          /\ ret.op = "is_loading" => ret.val = Bool(TRUE)
          /\ \A c \in Clients :
                (hnd[c].kind = "task" /\ hnd[c].t = task_handle) => pc[c] # "h_read"
    /\ (ret.op = "handle_task" /\ ret.val \notin {ErrCancelled, ErrPanicked}) =>
          /\ task_handle # 0
          /\ ret.val = tasks[task_handle].out
          /\ ret.val \in Outcomes
          /\ res = ret.val
          /\ ~IsLoading

\* The handle of a run resolved to the outcome the producer returned.
C6_Witness ==
    /\ ret.op = "handle_task"
    /\ ret.val \in Outcomes
    /\ task_handle # 0
    /\ tasks[task_handle].st = "done"

\* C7: when the handle of a stopped run resolves to the cancelled failure, the
\* result holds that same failure.
C7_CancelledIsMemoized ==
    (ret.op = "handle_task" /\ ret.val = ErrCancelled) => res = ErrCancelled

\* C8: a failure handed to a waiter or to a handle (the producer's error, the
\* cancellation, the panic) is the failure stored in the result.
C8_FailuresAreMemoized ==
    (ret.op \in {"wait", "handle_task", "handle_loaded"} /\ IsFailure(ret.val)) =>
        res = ret.val

\* The positions of a client inside wait().
WaitPcs == {"wait_lock", "wait_check", "wait_register", "wait_drop", "wait_await"}
\* C1: a client that called wait() before the run completed (it is inside
\* wait() when the producer returns r) eventually returns r from that wait().
C1_NoLostWakeups ==
    \A c \in Clients, t \in TaskIds, r \in Outcomes :
        [](  (pc[c] \in WaitPcs /\ tasks[t].st = "lock" /\ tasks[t].out = r)
          => <>(ret = Returned(c, "wait", r)))

\* C9: a client suspended in wait() when the current run has been cancelled or
\* has panicked eventually leaves wait(), unless a further run is started.
C9_NoWaiterStarves ==
    \A c \in Clients, t \in TaskIds :
        [](  (pc[c] = "wait_await" /\ task_handle = t
                /\ tasks[t].st \in {"cancelled", "panicked"})
          => <>(pc[c] = "idle" \/ Cardinality(Spawned) > t))

\* Positions at which a client is inside a blocking lock() of the mutex.
LockPcs == {"get", "reset", "progress", "is_loading", "stop_loading",
            "try_load", "wait_lock"}

\* Every worker of the runtime is held by a task blocked in lock().
AllWorkersBlocked ==
    /\ lock # Free
    /\ Cardinality(Running) = workers
    /\ \A c \in Clients : pc[c] \in SuspendedPcs \/ pc[c] \in LockPcs
    /\ \A t \in TaskIds : tasks[t].st \in PollingSts => tasks[t].st \in {"update", "update_with", "lock"}

\* A waiter blocks in lock() on the guard the completed run returned, which is
\* released only when the owner awaiting the handle is polled again, and no
\* worker is left to poll it.
WaiterDeadlock ==
    \E c, d \in Clients, t \in TaskIds :
        /\ pc[c] = "wait_lock"
        /\ lock = ByTask(t)
        /\ tasks[t].st = "finished"
        /\ hnd[d].kind = "task" /\ hnd[d].t = t
        /\ pc[d] = "h_await"
        /\ AllWorkersBlocked

\* C10: a waiter holds the lock only between taking it and dropping it, never
\* while suspended, and no state is reached in which a waiter and the
\* completed run block each other forever.
C10_WaitDoesNotDeadlock ==
    /\ \A c \in Clients :
          lock = ByClient(c) =>
              pc[c] \in {"wait_check", "wait_register", "wait_drop", "try_load_install"}
    /\ \A c \in Clients : pc[c] = "wait_await" => lock # ByClient(c)
    /\ ~WaiterDeadlock

\* Nothing can happen in a state of WaiterDeadlock.
DeadlockIsFinal == WaiterDeadlock => ~ENABLED Next

\* Positions at which a client is inside get(), progress(), is_loading() or
\* reset().
SnapshotPcs == {"get", "progress", "is_loading", "reset"}

\* The mutex is held by a load handle that has not been awaited: the guard of
\* an already-loaded handle, or the guard a finished task returned.
HeldByHandle ==
    \/ lock[1] = "loaded"
    \/ lock[1] = "task" /\ tasks[lock[2]].st = "finished"

\* C11: a client inside get(), progress(), is_loading() or reset() is never
\* kept from completing by a load handle another task holds.
C11_SnapshotsDoNotBlock ==
    \A c \in Clients : pc[c] \in SnapshotPcs => ~HeldByHandle

\* C12: a try_load_or_wait that started the run returns what the producer
\* returned; one that waited returns the outcome of a run that completed; and
\* when it returns a producer's outcome the result holds that outcome, so a
\* get() issued right after returns Some of it.
C12_LoadOrWaitReturnsMemoized ==
    /\ [][\A c \in Clients :
            (load_or_wait[c] /\ pc[c] = "h_read" /\ pc'[c] = "idle") =>
                /\ ret' = Returned(c, "try_load_or_wait", tasks[hnd[c].t].out)
                /\ ret'.val \in Outcomes]_vars
    /\ [][\A c \in Clients :
            (load_or_wait[c] /\ pc[c] = "wait_check" /\ pc'[c] = "idle") =>
                /\ ret'.op = "try_load_or_wait"
                /\ \E t \in TaskIds :
                      tasks[t].st \in {"finished", "done"} /\ tasks[t].out = ret'.val]_vars
    /\ []((ret.op = "try_load_or_wait" /\ ret.val \notin {ErrCancelled, ErrPanicked}) =>
            (ret.val \in Outcomes /\ res = ret.val))

\* A try_load_or_wait returned a producer's outcome while another client was
\* inside the wait() of its own try_load_or_wait.
C12_Witness ==
    /\ ret.op = "try_load_or_wait"
    /\ ret.val \in Outcomes
    /\ \E d \in Clients \ {ret.c} : load_or_wait[d] /\ pc[d] \in WaitPcs

\* C13: when a handle of a spawned run that was left at its default
\* (abort_on_drop = true) is dropped before the run's task has finished, be it
\* the LoadHandle or the future made of it, the task has been asked to abort.
C13_DropAbortsByDefault ==
    (ret.op \in {"handle_drop", "future_drop"}
        /\ ret.val[1] = "abort_on_drop" /\ ret.val[2] # 0) =>
        (is_finished(ret.val[2]) \/ tasks[ret.val[2]].abort)

\* C13 as amended: when the future of such a handle is dropped before the task
\* has finished, the task has been asked to abort; a task asked to abort while
\* it is suspended in its producer is never polled again, so that run writes
\* no result.
C13_FutureDropAbortsByDefault ==
    /\ []((ret.op = "future_drop" /\ ret.val[1] = "abort_on_drop" /\ ret.val[2] # 0) =>
            (is_finished(ret.val[2]) \/ tasks[ret.val[2]].abort))
    /\ [][\A t \in TaskIds :
            (tasks[t].st \in {"idle", "cancelled"} /\ tasks[t].abort) =>
                (tasks'[t].st \in {"idle", "cancelled"} /\ tasks'[t].out = None)]_vars
    /\ [][\A t \in TaskIds :
            tasks[t].st = "cancelled" => (tasks'[t].st = "cancelled" /\ tasks'[t].out = None)]_vars

\* The future of a default handle was dropped while the producer was suspended,
\* and the task has been asked to abort.
C13_Witness ==
    /\ ret.op = "future_drop"
    /\ ret.val[1] = "abort_on_drop"
    /\ ret.val[2] # 0
    /\ tasks[ret.val[2]].st = "idle"
    /\ tasks[ret.val[2]].abort

\* C14: the result and the progress are both populated only inside the
\* completion's critical section, between its write of the result and its
\* clearing of the progress, while the task holds the mutex; no operation that
\* reads the cell returns in such a state.
C14_NoInconsistentSnapshot ==
    (res # None /\ progress # None) =>
        /\ \E t \in TaskIds : lock = ByTask(t) /\ tasks[t].st = "clear"
        /\ ret.op \notin {"get", "reset", "progress", "is_loading", "wait", "try_load",
                        "handle_loaded"}
        /\ ret.op \in {"handle_task", "try_load_or_wait"} =>
              ret.val \in {ErrCancelled, ErrPanicked}

\* A run that reported progress is inside its completion, the result written
\* and the progress not yet cleared, and a client is inside progress().
C14_Witness ==
    /\ res # None
    /\ progress # None
    /\ \E t \in TaskIds : tasks[t].st = "clear" /\ lock = ByTask(t)
    /\ \E c \in Clients : pc[c] = "progress"

\* C15: a reset() leaves the tasks, task_handle, the progress and the waiters
\* as they are, so a cell that was loading is still loading; a task that
\* reaches its write stores what its producer returned whatever resets came
\* before, the stored outcome stays in place to the end of the critical
\* section, and the notification reaches every registered waiter.
C15_ResetLeavesRunAlone ==
    /\ [][\A c \in Clients :
            (pc[c] = "reset" /\ pc'[c] = "idle") =>
                /\ tasks' = tasks
                /\ task_handle' = task_handle
                /\ progress' = progress
                /\ notified' = notified
                /\ IsLoading => IsLoading']_vars
    /\ [][\A t \in TaskIds :
            (tasks[t].st = "write" /\ tasks'[t].st # "write") =>
                (res' = tasks[t].out /\ res' \in Outcomes)]_vars
    /\ [][\A t \in TaskIds :
            (tasks[t].st = "notify" /\ tasks'[t].st # "notify") =>
                \A c \in Clients : pc[c] \in {"wait_drop", "wait_await"} => notified'[c]]_vars
    /\ [](\A t \in TaskIds : tasks[t].st \in {"clear", "notify", "ret"} => res = tasks[t].out)

\* A reset() has just returned while the run is in flight, its producer having
\* returned and its write still to come, with a waiter suspended.
C15_Witness ==
    /\ ret.op = "reset"
    /\ IsLoading
    /\ tasks[task_handle].st = "lock"
    /\ \E c \in Clients : pc[c] = "wait_await"

\* C16: a client inside wait() at a moment the result is populated and the
\* mutex is free (no handle or task stands between the waiter and the result)
\* eventually returns from that wait(), whatever reset() and try_load calls of
\* other tasks interleave.
C16_WaitReturnsOncePopulated ==
    \A c \in Clients :
        []((pc[c] \in WaitPcs /\ res # None /\ lock = Free) =>
              <>(ret.c = c /\ ret.op = "wait"))

C18_ProgressOfCurrentRun ==
    /\ (ret.op = "progress" /\ ~IsLoading) => ret.val = None
    /\ (ret.op = "try_load" /\ ret.val[1] = "Task") => progress = None

\* The keys of a sequence of (key, value) pairs, and the value of a key.
KeysOf(seq) == {seq[i][1] : i \in DOMAIN seq}
ValueOf(seq, k) == seq[CHOOSE i \in DOMAIN seq : seq[i][1] = k][2]

\* What a keyed merge of l and r yields for key k, as a ParIterValue of items
\* (KeyedParIter) or as a key with a ParIterValue of values (KVParIter).
MergedAt(kind, l, r, k) ==
    LET lv == IF k \in KeysOf(l) THEN ValueOf(l, k) ELSE 0
        rv == IF k \in KeysOf(r) THEN ValueOf(r, k) ELSE 0
    IN  IF kind = "KeyedParIter"
        THEN IF k \in KeysOf(l) /\ k \in KeysOf(r) THEN <<"Both", <<k, lv>>, <<k, rv>>>>
             ELSE IF k \in KeysOf(l) THEN <<"Left", <<k, lv>>>>
             ELSE <<"Right", <<k, rv>>>>
        ELSE IF k \in KeysOf(l) /\ k \in KeysOf(r) THEN <<k, <<"Both", lv, rv>>>>
             ELSE IF k \in KeysOf(l) THEN <<k, <<"Left", lv>>>>
             ELSE <<k, <<"Right", rv>>>>

\* The merge over the keys of K, in increasing order of key.
RECURSIVE Merged(_, _, _, _)
Merged(kind, l, r, K) ==
    IF K = {} THEN <<>>
    ELSE LET k == CHOOSE x \in K : \A y \in K : x <= y
         IN  <<MergedAt(kind, l, r, k)>> \o Merged(kind, l, r, K \ {k})

\* The key of a yielded value.
YieldedKey(kind, v) == IF kind = "KeyedParIter" THEN v[2][1] ELSE v[1]

\* C19: what the iterator has yielded is, at every moment, the beginning of the
\* merge of its two inputs: each key of the union once, in strictly increasing
\* order, Both for a key of both inputs, Left or Right for a key of one; it
\* has returned None only after it yielded the whole merge, and once both
\* inputs are exhausted and nothing is cached the whole merge has been
\* yielded.
C19_KeyedMerge ==
        LET it == par_iter
            all == Merged(it.kind, it.left0, it.right0, KeysOf(it.left0) \cup KeysOf(it.right0))
            exhausted == it.left = <<>> /\ it.right = <<>> /\ it.value = None
        IN  /\ Len(it.out) <= Len(all)
            /\ it.out = SubSeq(all, 1, Len(it.out))
            /\ \A i, j \in DOMAIN it.out :
                  i < j => YieldedKey(it.kind, it.out[i]) < YieldedKey(it.kind, it.out[j])
            /\ it.done => (exhausted /\ it.out = all)
            /\ exhausted => it.out = all

\* An iterator over inputs that share a key and have a key of their own each
\* has come to its end having yielded a Both, a Left and a Right.
C19_Witness ==
    /\ par_iter.done
    /\ par_iter.kind = "KeyedParIter"
    /\ \E i, j, k \in DOMAIN par_iter.out :
          /\ par_iter.out[i][1] = "Both"
          /\ par_iter.out[j][1] = "Left"
          /\ par_iter.out[k][1] = "Right"

\* The (key, value) pairs inserted with a key of from..to: the keys in
\* ascending order and, for each key, the values in the order of the insert
\* calls.
RECURSIVE ByInsertion(_, _, _)
ByInsertion(inserted, from, to) ==
    IF from > to THEN <<>>
    ELSE SelectSeq(inserted, LAMBDA kv : kv[1] = from) \o ByInsertion(inserted, from + 1, to)

\* C20: what range returns is the inserted pairs of the keys in the range, the
\* keys ascending and the values of each key in the order they were inserted.
C20_ValuesInInsertionOrder ==
    map_vector.ranged # None =>
        LET from == map_vector.ranged[2][1]
            to == map_vector.ranged[2][2]
            pairs == map_vector.ranged[2][3]
        IN  /\ \A i, j \in DOMAIN pairs : i < j => pairs[i][1] <= pairs[j][1]
            /\ pairs = ByInsertion(map_vector.inserted, from, to)


\* The Ok values and the errors of a list of Result items, in its order.
ValuesOf(items) ==
    LET oks == SelectSeq(items, LAMBDA r : r[1] = "Ok")
    IN  [i \in 1..Len(oks) |-> oks[i][2]]
ErrorsOf(items) ==
    LET errs == SelectSeq(items, LAMBDA r : r[1] = "Err")
    IN  [i \in 1..Len(errs) |-> errs[i][2]]

\* C21: collecting Result items into AllErrs yields Ok of all the values in
\* order exactly when no item is an error and otherwise Err of every error in
\* order, and extending a default AllErrs with the items reaches the same.
C21_AllErrsCollectsAll ==
    /\ ErrorsOf(all_errs.fed) = <<>> => all_errs.this = Ok(ValuesOf(all_errs.fed))
    /\ ErrorsOf(all_errs.fed) # <<>> => all_errs.this = Err(ErrorsOf(all_errs.fed))
    /\ all_errs.op = "extend" => all_errs.this = FromIter(all_errs.fed)

\* An AllErrs extended from the default with three items of which two are
\* errors with a value in between.
C21_Witness ==
    /\ all_errs.op = "extend"
    /\ all_errs.fed = <<Err(2), Ok(1), Err(1)>>
    /\ all_errs.this = Err(<<2, 1>>)


\* C22: abs_diff(a, b) returns a - b whenever a - b fits into the signed
\* type, the signed minimum included, and panics exactly when it does not fit.
C22_AbsDiffExact ==
    numbers.op = "abs_diff" =>
        /\ numbers.a - numbers.b \in Signed => numbers.ret = Num(numbers.a - numbers.b)
        /\ numbers.a - numbers.b \notin Signed => numbers.ret = Panic

\* C23: saturating_signed_offset(a, b) is a + b clamped to the unsigned
\* range, and checked_signed_offset(a, b) is Some(a + b) exactly when a + b is
\* in the unsigned range and None otherwise, for every b down to the minimum.
C23_SignedOffsetsExact ==
    LET sum == numbers.a + numbers.b
    IN  /\ numbers.op = "saturating_signed_offset" =>
              numbers.ret = Num(IF sum < 0 THEN 0
                                ELSE IF sum > UnsignedMax THEN UnsignedMax ELSE sum)
        /\ numbers.op = "checked_signed_offset" =>
              numbers.ret = (IF sum \in Unsigned THEN Some(sum) ELSE None)

\* An offset by the signed minimum that stays in range.
C23_Witness ==
    /\ numbers.op = "checked_signed_offset"
    /\ numbers.b = SignedMin
    /\ numbers.a > -SignedMin
    /\ numbers.ret = Some(numbers.a + SignedMin)


\* C24: for any sequence of log writes and set_file calls, the file that
\* set_file(Some(path)) installed holds every byte logged before the call
\* followed by every byte logged after it, in order.
C24_RetroactiveLogFile ==
    file_writer.kind = "File" =>
        file_writer.files[file_writer.path] = file_writer.produced


\* C30: at most one live FileLock of the path exists at a time and only while
\* the lock file exists; new returns None when the file exists and a
\* FileLock when it does not (and the file system lets it create the file),
\* also after an earlier holder removed the file; unlock and drop each call
\* the removal exactly once, also when the removal fails.
C30_FileLockExclusive ==
    /\ Cardinality(file_lock.live) <= 1
    /\ file_lock.live # {} => file_lock.exists
    /\ file_lock.last.op = "new" /\ file_lock.last.existed => file_lock.last.val = None
    /\ file_lock.last.op = "new" /\ file_lock.last.val # None =>
          /\ ~file_lock.last.existed
          /\ file_lock.live = {file_lock.last.p}
    /\ file_lock.last.op \in {"unlock", "drop"} =>
          /\ file_lock.removals[file_lock.last.p] = 1
          /\ file_lock.last.val = Ok(0) => ~file_lock.exists
          /\ file_lock.last.val = Err(0) => file_lock.exists = file_lock.last.existed

\* A second process got the lock after the first one's unlock removed the file.
C30_Witness ==
    /\ file_lock.made = 2
    /\ file_lock.last.op = "new"
    /\ file_lock.last.val = Some(2)
    /\ file_lock.removals[1] = 1


\* C25: the loader task holds the lock from writing the result through
\* notify_waiters, and a waiter holds it from finding the result empty through
\* creating its Notified future, so the result is still empty and no task is
\* between its write and its notification when the waiter registers.
C25_WriteAndWakeAreAtomic ==
    /\ \A t \in TaskIds :
          tasks[t].st \in {"write", "clear", "notify"} => lock = ByTask(t)
    /\ \A c \in Clients :
          /\ pc[c] \in {"wait_check", "wait_register"} => lock = ByClient(c)
          /\ pc[c] = "wait_register" =>
                /\ res = None
                /\ \A t \in TaskIds : tasks[t].st \notin {"clear", "notify"}

\* A waiter found the result empty and is about to register while the
\* producer of the run has returned and its task goes for the lock.
C25_Witness ==
    \E c \in Clients, t \in TaskIds :
        /\ pc[c] = "wait_register"
        /\ tasks[t].st = "lock"

\* C26: the result goes from None to Some only by the write of the task
\* whose abort handle is in task_handle, installed before that write, and its
\* only other change is reset() setting it to None.
C26_OnlyCurrentRunWrites ==
    [][res' # res =>
          \/ /\ res' = None
             /\ \E c \in Clients : pc[c] = "reset" /\ pc'[c] = "idle"
          \/ /\ res = None
             /\ task_handle # 0
             /\ task_handle' = task_handle
             /\ tasks[task_handle].st = "write"
             /\ tasks'[task_handle].st = "clear"
             /\ res' = tasks[task_handle].out]_vars

\* The task of a second run, the one in task_handle, has just written.
C26_Witness ==
    /\ task_handle = 2
    /\ tasks[2].st = "clear"
    /\ res = tasks[2].out
    /\ tasks[1].st \in FinishedSts


\* C27: update(p) leaves Some(p) as the progress whatever it was;
\* update_with(f) leaves Some of what f makes of the stored progress, or of a
\* default P when none is stored; neither changes the result or task_handle.
C27_ProgressUpdaterSemantics ==
    [][\A t \in TaskIds :
          /\ tasks[t].st = "update" /\ tasks'[t].st = "idle" =>
                /\ progress' = Some(tasks[t].out[2])
                /\ res' = res /\ task_handle' = task_handle
          /\ tasks[t].st = "update_with" /\ tasks'[t].st = "idle" =>
                /\ progress = None =>
                      progress' = Some(Mutate(tasks[t].out[2], DefaultProg))
                /\ progress # None =>
                      progress' = Some(Mutate(tasks[t].out[2], progress[2]))
                /\ res' = res /\ task_handle' = task_handle]_vars

\* update_with found a progress other than the default and changed it.
C27_Witness ==
    /\ ret.op = "update_with"
    /\ ret.val \notin {None, Some(DefaultProg)}
    /\ progress # ret.val


\* C28: when a handle's future reads the result, after its task returned or
\* for an already loaded handle, the result is there whatever reset() calls
\* are under way, so the expect never fails, and what the future yields is the
\* outcome the producer wrote.
C28_HandleReadFindsResult ==
    /\ ret.val # ExpectFailed
    /\ \A c \in Clients :
          /\ pc[c] = "h_read" =>
                /\ lock = ByFut(c)
                /\ res # None
                /\ res = tasks[hnd[c].t].out
          /\ hnd[c].kind = "loaded" =>
                /\ lock = ByLoaded(c)
                /\ res # None
    /\ (ret.op \in {"handle_task", "handle_loaded"}
          /\ ret.val \notin {ErrCancelled, ErrPanicked}) =>
          /\ ret.val \in Outcomes
          /\ ret.val = res

\* A handle's future has yielded the outcome while another client's reset()
\* was under way.
C28_Witness ==
    /\ ret.op = "handle_task"
    /\ ret.val \in Outcomes
    /\ \E c \in Clients : pc[c] = "reset"


\* The handle of task t was dropped and the task was not asked to abort.
Detached(t) == ~tasks[t].join /\ ~tasks[t].abort

\* C29: dropping a handle set to with_abort_on_drop(false), or its future,
\* before the task has finished does not abort the task; once the producer of
\* a task detached this way has returned, the task comes to its end with the
\* outcome written; its notification reaches every client waiting in wait();
\* the result then stays and every get() returns the result.
C29_DetachedRunCompletes ==
    /\ [][\A c \in Clients :
            (/\ hnd[c].kind = "task" /\ ~hnd[c].aod
             /\ ~is_finished(hnd[c].t)
             /\ hnd'[c].kind = "none"
             /\ ret'.c = c /\ ret'.op \in {"handle_drop", "future_drop"}) =>
                /\ tasks'[hnd[c].t].abort = tasks[hnd[c].t].abort
                /\ tasks'[hnd[c].t].st = tasks[hnd[c].t].st
                /\ ~tasks'[hnd[c].t].join]_vars
    /\ \A t \in TaskIds :
          (Detached(t) /\ tasks[t].st = "lock")
              ~> (tasks[t].st = "done" /\ res = tasks[t].out /\ res \in Outcomes)
    /\ [][/\ \A t \in TaskIds, c \in Clients :
                (tasks[t].st = "notify" /\ tasks'[t].st = "ret"
                 /\ pc[c] \in {"wait_drop", "wait_await"}) => notified'[c]
          /\ res # None => res' = res
          /\ ret'.op = "get" => ret'.val = res']_vars

\* The future of a handle set to with_abort_on_drop(false) has just been
\* dropped while its task runs and another client waits in wait().
C29_Witness ==
    /\ ret.op = "future_drop"
    /\ ret.val[1] = "detach"
    /\ ret.val[2] \in TaskIds
    /\ tasks[ret.val[2]].st = "idle"
    /\ Detached(ret.val[2])
    /\ \E c \in Clients : pc[c] = "wait_await"

=============================================================================
